---- MODULE Spec2Model ----
(***************************************************************************)
(* A model of the terminal backend: the command engine                     *)
(* (backend/terminal_engine.py) and the session store, transport handlers  *)
(* and sweep thread (backend/app.py).                                      *)
(*                                                                         *)
(* A command text is held as the sequence of its whitespace-separated      *)
(* words, which is what str.split() makes of it; "&&" is one such word.    *)
(* A file-system path is the sequence of its components below the root,    *)
(* and a component is itself a sequence of words, because cd joins its     *)
(* arguments with blanks into one name.  There are no symbolic links and   *)
(* no permission bits in the modelled file system.                         *)
(***************************************************************************)
EXTENDS Integers, Sequences, FiniteSets, TLC

\* ------------------------------------------------------------- bounds
\* Deepest path the file system may hold.
MaxDepth == 2
\* TerminalSession objects alive at once (in the store or held by a request).
MaxObjs == 2
\* uuid4 identifiers generated in one run.
MaxUuids == 1
\* Request-handling threads of the server (async_mode='threading').
NThreads == 2
\* Entries a command history may reach.
MaxHistory == 2
\* Times the wall clock is seen to move on.
MaxTicks == 2
\* Samples the stats thread takes.
MaxSamples == 3

\* ---------------------------------------------------------- constants
\* (current_time - last_activity).seconds > 3600
InactivitySeconds == 3600
\* datetime.timedelta keeps days apart from seconds: 0 <= seconds < 24 h
SecondsPerDay == 24 * 60 * 60
\* len(command_parts) < 3 is never natural language
MinNlWords == 3

\* --------------------------------------------------------------- paths
Root == <<>>

Name(tok) == <<tok>>

Parent(p) == IF p = Root THEN Root ELSE SubSeq(p, 1, Len(p) - 1)

IsPrefix(p, q) == Len(p) <= Len(q) /\ SubSeq(q, 1, Len(p)) = p

\* os.path.expanduser("~")
HomeDir == Root

\* The words that os.path.isabs() accepts, with the path each one names.
AbsTokens == {"/"}

isabs(tok) == tok \in AbsTokens

AbsPath(tok) == Root

\* The words that start with "-".
DashTokens == {"-p", "-r", "-f", "-rf", "-fr"}

startswith_dash(tok) == tok \in DashTokens

Contains(seq, x) == \E i \in DOMAIN seq : seq[i] = x

\* list.remove(x): drops the first occurrence only.
RECURSIVE list_remove(_, _)
list_remove(seq, x) ==
    IF seq = <<>> THEN <<>>
    ELSE IF Head(seq) = x THEN Tail(seq)
    ELSE <<Head(seq)>> \o list_remove(Tail(seq), x)

\* [arg for arg in args if not arg.startswith('-')]
RECURSIVE drop_flags(_)
drop_flags(seq) ==
    IF seq = <<>> THEN <<>>
    ELSE IF startswith_dash(Head(seq)) THEN drop_flags(Tail(seq))
    ELSE <<Head(seq)>> \o drop_flags(Tail(seq))

\* os.path.join(self.current_directory, name) for one word, after the
\* os.path.isabs() test of the handlers.
join(cwd, tok) == IF isabs(tok) THEN AbsPath(tok) ELSE Append(cwd, Name(tok))

\* os.path.realpath without symbolic links: ".." steps to the parent (the
\* root is its own parent), "." and missing components are kept as named.
RECURSIVE realpath(_)
realpath(p) ==
    IF p = Root THEN Root
    ELSE LET head == realpath(SubSeq(p, 1, Len(p) - 1))
             last == p[Len(p)]
         IN  IF last = Name("..") THEN Parent(head) ELSE Append(head, last)

\* --------------------------------------------------------- file system
\* fs = [dirs |-> set of paths, files |-> set of paths]; Root is a directory.
exists(fs, p) == p \in fs.dirs \/ p \in fs.files

isdir(fs, p) == p \in fs.dirs

Under(fs, p) == {q \in fs.dirs \cup fs.files : IsPrefix(p, q)}

Prefixes(p) == {SubSeq(p, 1, n) : n \in 0..Len(p)}

\* The error an operating-system call raises for a path that is not there.
MissingError(fs, p) ==
    IF \E a \in Prefixes(p) : a \in fs.files THEN "NotADirectoryError"
    ELSE "FileNotFoundError"

\* The error for a path whose parent directory is not there, "" when the
\* parent is a directory.
ParentError(fs, p) ==
    IF isdir(fs, Parent(p)) THEN "" ELSE MissingError(fs, Parent(p))

\* The working directory of the process, which the kernel holds as a
\* reference to the directory itself: a removed directory leaves it dangling.
ProcRemoved(pc, p) ==
    IF pc.alive /\ IsPrefix(p, pc.path) THEN [alive |-> FALSE, path |-> Root] ELSE pc

ProcMoved(pc, src, dst) ==
    IF pc.alive /\ IsPrefix(src, pc.path)
    THEN [alive |-> TRUE, path |-> dst \o SubSeq(pc.path, Len(src) + 1, Len(pc.path))]
    ELSE pc

\* os.mkdir
os_mkdir(fs, p) ==
    IF exists(fs, p) THEN [err |-> "FileExistsError", fs |-> fs]
    ELSE IF ParentError(fs, p) # "" THEN [err |-> ParentError(fs, p), fs |-> fs]
    ELSE [err |-> "", fs |-> [fs EXCEPT !.dirs = @ \cup {p}]]

\* os.makedirs(p) without exist_ok: a directory that is there is an error.
os_makedirs_mutant(fs, p) ==
    IF exists(fs, p) THEN [err |-> "FileExistsError", fs |-> fs]
    ELSE IF \E a \in Prefixes(p) : a \in fs.files
         THEN [err |-> "NotADirectoryError", fs |-> fs]
    ELSE [err |-> "", fs |-> [fs EXCEPT !.dirs = @ \cup Prefixes(p)]]

\* os.makedirs(p, exist_ok=True)
os_makedirs(fs, p) ==
    IF isdir(fs, p) THEN [err |-> "", fs |-> fs]
    ELSE IF p \in fs.files THEN [err |-> "FileExistsError", fs |-> fs]
    ELSE IF \E a \in Prefixes(p) : a \in fs.files
         THEN [err |-> "NotADirectoryError", fs |-> fs]
    ELSE [err |-> "", fs |-> [fs EXCEPT !.dirs = @ \cup Prefixes(p)]]

\* shutil.rmtree of a directory
shutil_rmtree(fs, p) ==
    [err |-> "", fs |-> [dirs |-> fs.dirs \ Under(fs, p), files |-> fs.files \ Under(fs, p)]]

\* os.rmdir
os_rmdir(fs, p) ==
    IF Under(fs, p) # {p} THEN [err |-> "OSError", fs |-> fs]
    ELSE [err |-> "", fs |-> [fs EXCEPT !.dirs = @ \ {p}]]

\* os.remove of a file
os_remove(fs, p) == [err |-> "", fs |-> [fs EXCEPT !.files = @ \ {p}]]

\* os.chdir
os_chdir(fs, p) ==
    IF isdir(fs, p) THEN ""
    ELSE IF p \in fs.files THEN "NotADirectoryError"
    ELSE MissingError(fs, p)

\* ------------------------------------------------------------- output
\* One printed line: its text and the path or name it mentions (Root when it
\* mentions none).
Line(text, arg) == <<text, arg>>

Said(tok) == <<Name(tok)>>

ErrorTexts ==
    { "Error: No such file or directory",
      "Error: Permission denied",
      "Error: {e}",
      "Error: Directory '{}' already exists",
      "Error: '{}' not found",
      "Error: Use -f flag to delete '{}' in web mode for safety",
      "Error deleting '{}': {e}",
      "Error: Source '{}' not found",
      "Error: Use -r flag to copy directories",
      "Error: Source and destination are the same",
      "Error: File '{}' not found",
      "Error reading '{}': {e}",
      "Error creating '{}': {e}",
      "Error: Command not found",
      "Error executing command: {e}" }

IsErrorLine(line) == line[1] \in ErrorTexts

HasError(out) == \E i \in DOMAIN out : IsErrorLine(out[i])

\* ----------------------------------------------------- command handlers
\* A handler maps the world w it runs in to the world it leaves:
\*   w.fs                 the file system
\*   w.proc               the working directory of the process (os.chdir)
\*   w.current_directory  TerminalEngine.current_directory
\*   w.command_history    TerminalEngine.command_history
\*   w.out                the lines printed so far
Say(w, text, arg) == [w EXCEPT !.out = Append(@, Line(text, arg))]

cmd_pwd(w, args) == Say(w, "{cwd}", w.current_directory)

\* " ".join(args) followed by the os.path.isabs() test and os.path.join:
\* several words make one name that holds blanks.
cd_target(cwd, args) ==
    IF args = <<>> THEN HomeDir
    ELSE IF isabs(args[1])
         THEN IF Len(args) = 1 THEN AbsPath(args[1]) ELSE Append(Root, args)
    ELSE Append(cwd, args)

\* cmd_cd with self.current_directory assigned ahead of os.chdir.
cmd_cd_mutant(w, args) ==
    LET resolved_path == realpath(cd_target(w.current_directory, args))
        err == os_chdir(w.fs, resolved_path)
        moved == [w EXCEPT !.current_directory = resolved_path]
    IN  IF err = "" THEN [moved EXCEPT !.proc = [alive |-> TRUE, path |-> resolved_path]]
        ELSE IF err = "FileNotFoundError"
             THEN Say(moved, "Error: No such file or directory", Root)
        ELSE Say(moved, "Error: {e}", Root)

cmd_cd(w, args) ==
    LET resolved_path == realpath(cd_target(w.current_directory, args))
        err == os_chdir(w.fs, resolved_path)
    IN  IF err = ""
        THEN [w EXCEPT !.proc = [alive |-> TRUE, path |-> resolved_path],
                       !.current_directory = resolved_path]
        ELSE IF err = "FileNotFoundError"
             THEN Say(w, "Error: No such file or directory", Root)
        ELSE Say(w, "Error: {e}", Root)

RECURSIVE mkdir_each(_, _, _)
mkdir_each(w, names, recursive) ==
    IF names = <<>> THEN w
    ELSE LET directory_name == Head(names)
             directory_path == join(w.current_directory, directory_name)
             r == IF recursive THEN os_makedirs(w.fs, directory_path)
                  ELSE os_mkdir(w.fs, directory_path)
             done == IF r.err = ""
                     THEN Say([w EXCEPT !.fs = r.fs],
                              "Directory '{}' created successfully", Said(directory_name))
                     ELSE IF r.err = "FileExistsError"
                          THEN Say(w, "Error: Directory '{}' already exists",
                                   Said(directory_name))
                     ELSE Say(w, "Error: {e}", Root)
         IN  mkdir_each(done, Tail(names), recursive)

cmd_mkdir(w, args) ==
    IF args = <<>> THEN Say(w, "Usage: mkdir [-p] <directory_name>", Root)
    ELSE LET recursive == Contains(args, "-p")
             rest == IF recursive THEN list_remove(args, "-p") ELSE args
         IN  IF rest = <<>> THEN Say(w, "Usage: mkdir [-p] <directory_name>", Root)
             ELSE mkdir_each(w, rest, recursive)

\* One item of the loop of cmd_rm, were the recursive flag to stand in for
\* the force flag.
rm_item_mutant(w, item_name, recursive, force) ==
    LET item_path == join(w.current_directory, item_name)
        r == IF isdir(w.fs, item_path)
             THEN IF recursive THEN shutil_rmtree(w.fs, item_path)
                  ELSE os_rmdir(w.fs, item_path)
             ELSE os_remove(w.fs, item_path)
    IN  IF ~exists(w.fs, item_path) THEN Say(w, "Error: '{}' not found", Said(item_name))
        ELSE IF ~force /\ ~recursive
             THEN Say(w, "Error: Use -f flag to delete '{}' in web mode for safety",
                      Said(item_name))
        ELSE IF r.err # "" THEN Say(w, "Error deleting '{}': {e}", Said(item_name))
        ELSE Say([w EXCEPT !.fs = r.fs, !.proc = ProcRemoved(@, item_path)],
                 IF isdir(w.fs, item_path) THEN "Directory '{}' deleted successfully"
                 ELSE "File '{}' deleted successfully",
                 Said(item_name))

\* One item of the loop of cmd_rm.
rm_item(w, item_name, recursive, force) ==
    LET item_path == join(w.current_directory, item_name)
        r == IF isdir(w.fs, item_path)
             THEN IF recursive THEN shutil_rmtree(w.fs, item_path)
                  ELSE os_rmdir(w.fs, item_path)
             ELSE os_remove(w.fs, item_path)
    IN  IF ~exists(w.fs, item_path) THEN Say(w, "Error: '{}' not found", Said(item_name))
        ELSE IF ~force
             THEN Say(w, "Error: Use -f flag to delete '{}' in web mode for safety",
                      Said(item_name))
        ELSE IF r.err # "" THEN Say(w, "Error deleting '{}': {e}", Said(item_name))
        ELSE Say([w EXCEPT !.fs = r.fs, !.proc = ProcRemoved(@, item_path)],
                 IF isdir(w.fs, item_path) THEN "Directory '{}' deleted successfully"
                 ELSE "File '{}' deleted successfully",
                 Said(item_name))

\* The loop of cmd_rm, were the first item that fails to end it.
RECURSIVE rm_each_mutant(_, _, _, _)
rm_each_mutant(w, names, recursive, force) ==
    IF names = <<>> THEN w
    ELSE LET done == rm_item(w, Head(names), recursive, force)
         IN  IF IsErrorLine(done.out[Len(done.out)]) THEN done
             ELSE rm_each_mutant(done, Tail(names), recursive, force)

RECURSIVE rm_each(_, _, _, _)
rm_each(w, names, recursive, force) ==
    IF names = <<>> THEN w
    ELSE rm_each(rm_item(w, Head(names), recursive, force), Tail(names), recursive, force)

cmd_rm(w, args) ==
    IF args = <<>> THEN Say(w, "Usage: rm [-rf] <file_or_directory>", Root)
    ELSE LET recursive == Contains(args, "-r") \/ Contains(args, "-rf")
             force == Contains(args, "-f") \/ Contains(args, "-rf")
             rest == drop_flags(args)
         IN  IF rest = <<>> THEN Say(w, "Usage: rm [-rf] <file_or_directory>", Root)
             ELSE rm_each(w, rest, recursive, force)

\* shutil.move: into dst when dst is a directory, else onto dst.
Rebase(q, src, dst) == dst \o SubSeq(q, Len(src) + 1, Len(q))

shutil_move(fs, src, dst) ==
    LET real_dst == IF isdir(fs, dst) /\ src # dst THEN Append(dst, src[Len(src)]) ELSE dst
        moved == Under(fs, src)
    IN  IF ~exists(fs, src) THEN [err |-> "FileNotFoundError", fs |-> fs, to |-> real_dst]
        ELSE IF src = dst THEN [err |-> "", fs |-> fs, to |-> src]
        ELSE IF isdir(fs, dst) /\ exists(fs, real_dst)
             THEN [err |-> "shutil.Error", fs |-> fs, to |-> real_dst]
        ELSE IF IsPrefix(src, real_dst)
             THEN [err |-> "shutil.Error", fs |-> fs, to |-> real_dst]
        ELSE IF isdir(fs, src) /\ real_dst \in fs.files
             THEN [err |-> "FileExistsError", fs |-> fs, to |-> real_dst]
        ELSE IF ParentError(fs, real_dst) # ""
             THEN [err |-> ParentError(fs, real_dst), fs |-> fs, to |-> real_dst]
        ELSE [err |-> "",
              fs |-> [dirs |-> (fs.dirs \ moved)
                                 \cup {Rebase(q, src, real_dst) : q \in fs.dirs \cap moved},
                      files |-> ((fs.files \ moved) \ {real_dst})
                                 \cup {Rebase(q, src, real_dst) : q \in fs.files \cap moved}],
              to |-> real_dst]

cmd_mv(w, args) ==
    IF Len(args) # 2 THEN Say(w, "Usage: mv <source> <destination>", Root)
    ELSE LET source == join(w.current_directory, args[1])
             destination == join(w.current_directory, args[2])
             r == shutil_move(w.fs, source, destination)
         IN  IF r.err = ""
             THEN Say([w EXCEPT !.fs = r.fs, !.proc = ProcMoved(@, source, r.to)],
                      "'{}' moved to '{}' successfully", Said(args[1]))
             ELSE IF r.err = "FileNotFoundError"
                  THEN Say(w, "Error: Source '{}' not found", Said(args[1]))
             ELSE Say(w, "Error: {e}", Root)

\* shutil.copytree(src, dst) of a directory: dst must not be there, its
\* missing parents are made, and what src held when the copy began is copied.
shutil_copytree(fs, src, dst) ==
    LET copied == Under(fs, src)
    IN  IF exists(fs, dst) THEN [err |-> "FileExistsError", fs |-> fs]
        ELSE IF \E a \in Prefixes(dst) : a \in fs.files
             THEN [err |-> "NotADirectoryError", fs |-> fs]
        ELSE [err |-> "",
              fs |-> [dirs |-> fs.dirs \cup Prefixes(dst)
                                 \cup {Rebase(q, src, dst) : q \in fs.dirs \cap copied},
                      files |-> fs.files
                                 \cup {Rebase(q, src, dst) : q \in fs.files \cap copied}]]

\* shutil.copy2(src, dst) of what is not a directory: into dst when dst is a
\* directory, else onto dst.
shutil_copy2(fs, src, dst) ==
    LET real_dst == IF isdir(fs, dst) THEN Append(dst, src[Len(src)]) ELSE dst
    IN  IF ~exists(fs, src) THEN [err |-> MissingError(fs, src), fs |-> fs]
        ELSE IF real_dst = src THEN [err |-> "SameFileError", fs |-> fs]
        ELSE IF isdir(fs, real_dst) THEN [err |-> "IsADirectoryError", fs |-> fs]
        ELSE IF ParentError(fs, real_dst) # ""
             THEN [err |-> ParentError(fs, real_dst), fs |-> fs]
        ELSE [err |-> "", fs |-> [fs EXCEPT !.files = @ \cup {real_dst}]]

cmd_cp(w, args) ==
    LET recursive == Contains(args, "-r")
        rest == IF recursive THEN list_remove(args, "-r") ELSE args
    IN  IF Len(args) < 2 \/ Len(rest) # 2
        THEN Say(w, "Usage: cp [-r] <source> <destination>", Root)
        ELSE LET source == join(w.current_directory, rest[1])
                 destination == join(w.current_directory, rest[2])
                 r == IF isdir(w.fs, source)
                      THEN shutil_copytree(w.fs, source, destination)
                      ELSE shutil_copy2(w.fs, source, destination)
             IN  IF isdir(w.fs, source) /\ ~recursive
                 THEN Say(w, "Error: Use -r flag to copy directories", Root)
                 ELSE IF r.err = ""
                      THEN Say([w EXCEPT !.fs = r.fs],
                               "'{}' copied to '{}' successfully", Said(rest[1]))
                 ELSE IF r.err = "FileNotFoundError"
                      THEN Say(w, "Error: Source '{}' not found", Said(rest[1]))
                 ELSE IF r.err = "SameFileError"
                      THEN Say(w, "Error: Source and destination are the same", Root)
                 ELSE Say(w, "Error: {e}", Root)

RECURSIVE cat_each(_, _)
cat_each(w, names) ==
    IF names = <<>> THEN w
    ELSE LET filename == Head(names)
             filepath == join(w.current_directory, filename)
             done == IF filepath \in w.fs.files THEN Say(w, "{content}", Said(filename))
                     ELSE IF ~exists(w.fs, filepath)
                             /\ MissingError(w.fs, filepath) = "FileNotFoundError"
                          THEN Say(w, "Error: File '{}' not found", Said(filename))
                     ELSE Say(w, "Error reading '{}': {e}", Said(filename))
         IN  cat_each(done, Tail(names))

cmd_cat(w, args) ==
    IF args = <<>> THEN Say(w, "Usage: cat <filename>", Root) ELSE cat_each(w, args)

\* pathlib.Path.touch: an existing path keeps its kind and content.
RECURSIVE touch_each(_, _)
touch_each(w, names) ==
    IF names = <<>> THEN w
    ELSE LET filename == Head(names)
             filepath == join(w.current_directory, filename)
             done == IF exists(w.fs, filepath)
                     THEN Say(w, "File '{}' created/updated successfully", Said(filename))
                     ELSE IF ParentError(w.fs, filepath) # ""
                          THEN Say(w, "Error creating '{}': {e}", Said(filename))
                     ELSE Say([w EXCEPT !.fs.files = @ \cup {filepath}],
                              "File '{}' created/updated successfully", Said(filename))
         IN  touch_each(done, Tail(names))

cmd_touch(w, args) ==
    IF args = <<>> THEN Say(w, "Usage: touch <filename>", Root) ELSE touch_each(w, args)

\* os.listdir(self.current_directory) and the listing.
cmd_ls(w, args) ==
    IF isdir(w.fs, w.current_directory) THEN Say(w, "{listing}", w.current_directory)
    ELSE Say(w, "Error: {e}", Root)

\* The built-ins that only print and cannot fail on the file system: cpu,
\* mem, ps, history, clear, help, whoami, date and find.
cmd_report(w, command) == Say(w, "{report}", Said(command))

\* ----------------------------------------------------------- dispatcher
\* self.builtin_commands
ReportCommands == {"cpu", "mem", "ps", "history", "clear", "help", "whoami", "date", "find"}

builtin_commands ==
    {"pwd", "ls", "cd", "mkdir", "rm", "cp", "mv", "cat", "touch"} \cup ReportCommands

run_builtin(w, command, args) ==
    CASE command = "pwd" -> cmd_pwd(w, args)
      [] command = "ls" -> cmd_ls(w, args)
      [] command = "cd" -> cmd_cd(w, args)
      [] command = "mkdir" -> cmd_mkdir(w, args)
      [] command = "rm" -> cmd_rm(w, args)
      [] command = "cp" -> cmd_cp(w, args)
      [] command = "mv" -> cmd_mv(w, args)
      [] command = "cat" -> cmd_cat(w, args)
      [] command = "touch" -> cmd_touch(w, args)
      [] OTHER -> cmd_report(w, command)

nl_indicators ==
    {"show", "list", "find", "create", "delete", "copy", "move", "what", "how",
     "where", "all", "me", "the"}

is_likely_natural_language(user_input) ==
    /\ Len(user_input) >= MinNlWords
    /\ \E i \in 1..MinNlWords : user_input[i] \in nl_indicators

\* The programs on the search path: "true" exits 0 and "false" exits 1, both
\* silently; no other word names a program.
execute_external_command(w, command_parts) ==
    IF ~isdir(w.fs, w.current_directory) \/ command_parts = <<>>
    THEN [w |-> Say(w, "Error: Command not found", Root), success |-> FALSE, raised |-> FALSE]
    ELSE IF command_parts[1] = "true"
         THEN [w |-> w, success |-> TRUE, raised |-> FALSE]
    ELSE IF command_parts[1] = "false"
         THEN [w |-> Say(w, "Command exited with return code: {}", Root),
               success |-> FALSE, raised |-> FALSE]
    ELSE [w |-> Say(w, "Error: Command not found", Root), success |-> FALSE, raised |-> FALSE]

\* translate_natural_language: ai.reply is what the model answered, <<>>
\* when the call failed or answered nothing.
translate_natural_language(ai, user_input) == IF ~ai.available THEN <<>> ELSE ai.reply

\* execute_single_command, were it to take the natural-language branch
\* without looking at ai_available.
execute_single_command_mutant(w, user_input, ai) ==
    IF user_input = <<>> THEN [w |-> w, success |-> FALSE, raised |-> TRUE]
    ELSE LET command == user_input[1]
             args == Tail(user_input)
             ai_command == translate_natural_language(ai, user_input)
         IN  IF command \in builtin_commands
             THEN [w |-> run_builtin(w, command, args), success |-> TRUE, raised |-> FALSE]
             ELSE IF is_likely_natural_language(user_input)
                  THEN IF ai_command # <<>>
                       THEN execute_external_command(
                                Say(Say(w, "AI translated: '{}' -> '{}'", Root),
                                    "Executing translated command...", Root),
                                ai_command)
                       ELSE [w |-> Say(w, "Could not translate natural language to command", Root),
                             success |-> FALSE, raised |-> FALSE]
             ELSE execute_external_command(w, user_input)

\* execute_single_command returns True or False, or raises IndexError on a
\* text without a word (command_parts[0]).
execute_single_command(w, user_input, ai) ==
    IF user_input = <<>> THEN [w |-> w, success |-> FALSE, raised |-> TRUE]
    ELSE LET command == user_input[1]
             args == Tail(user_input)
             ai_command == translate_natural_language(ai, user_input)
         IN  IF command \in builtin_commands
             THEN [w |-> run_builtin(w, command, args), success |-> TRUE, raised |-> FALSE]
             ELSE IF ai.available /\ is_likely_natural_language(user_input)
                  THEN IF ai_command # <<>>
                       THEN execute_external_command(
                                Say(Say(w, "AI translated: '{}' -> '{}'", Root),
                                    "Executing translated command...", Root),
                                ai_command)
                       ELSE [w |-> Say(w, "Could not translate natural language to command", Root),
                             success |-> FALSE, raised |-> FALSE]
             ELSE execute_external_command(w, user_input)

\* user_input.split('&&'), each piece stripped.
RECURSIVE split_chain(_)
split_chain(user_input) ==
    IF ~Contains(user_input, "&&") THEN <<user_input>>
    ELSE LET i == CHOOSE k \in DOMAIN user_input :
                      /\ user_input[k] = "&&"
                      /\ \A j \in 1..(k - 1) : user_input[j] # "&&"
         IN  <<SubSeq(user_input, 1, i - 1)>>
                 \o split_chain(SubSeq(user_input, i + 1, Len(user_input)))

\* Whether running one piece from world w failed: it returned False, raised,
\* or its handler printed an error line.
PieceFailed(w, r) ==
    \/ r.raised
    \/ ~r.success
    \/ HasError(SubSeq(r.w.out, Len(w.out) + 1, Len(r.w.out)))

\* The loop of TerminalEngine.execute_command over the pieces of a chain:
\* ran counts the pieces that were started, failed is the place of the first
\* piece that failed (0 when none did).
RECURSIVE run_chain(_, _, _)
run_chain(w, commands, ai) ==
    IF commands = <<>> THEN [w |-> w, raised |-> FALSE, ran |-> 0, failed |-> 0]
    ELSE LET r == execute_single_command(w, Head(commands), ai)
             rest == run_chain(r.w, Tail(commands), ai)
         IN  IF r.raised THEN [w |-> r.w, raised |-> TRUE, ran |-> 1, failed |-> 1]
             ELSE IF ~r.success THEN [w |-> r.w, raised |-> FALSE, ran |-> 1, failed |-> 1]
             ELSE [rest EXCEPT !.ran = @ + 1,
                               !.failed = IF PieceFailed(w, r) THEN 1
                                          ELSE IF @ = 0 THEN 0 ELSE @ + 1]

TerminalEngine_execute_command(w, user_input, ai) ==
    IF user_input = <<>> THEN [w |-> w, raised |-> FALSE, ran |-> 0, failed |-> 0]
    ELSE LET logged == [w EXCEPT !.command_history = Append(@, user_input)]
         IN  IF Contains(user_input, "&&")
             THEN run_chain(logged, split_chain(user_input), ai)
             ELSE run_chain(logged, <<user_input>>, ai)

\* ---------------------------------------------------------------- state
VARIABLES
    fs,                 \* the file system
    proc,               \* the working directory of the running process
    ai_available,       \* terminal_engine.ai_available, set at import
    now,                \* datetime.now(), in seconds
    objs,               \* the TerminalSession objects alive, by object number
    terminal_sessions,  \* app.terminal_sessions: a dict, in insertion order
    uuids,              \* how many uuid4 values were generated
    req,                \* each request thread: where it is and its locals
    sweep,              \* the cleanup thread: where it is and its locals
    cli,                \* the engine that terminal_engine.main() runs
    system_stats_cache, \* app.system_stats_cache: a dict
    poller              \* the stats thread: where it is and its locals

vars == <<fs, proc, ai_available, now, objs, terminal_sessions, uuids, req, sweep, cli,
          system_stats_cache, poller>>

Threads == 1..NThreads

\* A session identifier: 0 is "none given" (None or ""), k > 0 is the k-th
\* uuid4 value generated, k < 0 is an identifier a client made up.
MadeUpIds == {-1}

NoObj == 0

NoResult == [status |-> 0, success |-> FALSE, output |-> <<>>,
             current_directory |-> Root, session_id |-> 0]

\* A snapshot is known by the number of the sample that made it; NoStats is
\* the local stats of update_system_stats before its first sample.
NoStats == 0

\* system_stats_cache = {}
NoCache == [keys |-> {}, current |-> NoStats]

\* A JSON body: the keys it holds and their values; NoData is {}.
NoData == [keys |-> {}, command |-> <<>>, session_id |-> 0]

IdleReq == [pc |-> "idle", kind |-> "", session_id |-> 0, given |-> 0, obj |-> NoObj,
            command |-> <<>>, result |-> NoResult, data |-> NoData, stats |-> NoStats]

\* ------------------------------------------------------ the dict in order
Keys(d) == {d[i].key : i \in DOMAIN d}

\* The lookup of a store that keeps one session for all its identifiers.
Get_mutant(d, k) == d[1].obj

Get(d, k) == d[CHOOSE i \in DOMAIN d : d[i].key = k].obj

Put(d, k, o) ==
    IF k \in Keys(d)
    THEN [i \in DOMAIN d |-> IF d[i].key = k THEN [key |-> k, obj |-> o] ELSE d[i]]
    ELSE Append(d, [key |-> k, obj |-> o])

KeepOthers(e, k) == e.key # k

Del(d, k) == SelectSeq(d, LAMBDA e : KeepOthers(e, k))

Stored(d) == {d[i].obj : i \in DOMAIN d}

\* The objects still referenced once the store is d and the threads are r.
Referenced(d, r) == (Stored(d) \cup {r[t].obj : t \in Threads}) \ {NoObj}

Collect(o, d, r) == [n \in (DOMAIN o) \cap Referenced(d, r) |-> o[n]]

\* The cleanup thread in time.sleep(300): its locals are gone.
Asleep == [pc |-> "sleep", current_time |-> 0, used |-> 0, pos |-> 0,
           sessions_to_remove |-> <<>>]

\* ------------------------------------------------------------------ Init
\* The process starts in the root directory of the file system f0, with
\* the AI features found or not as the set ai says.
Boot(f0, ai) ==
    /\ fs = f0
    /\ proc = [alive |-> TRUE, path |-> Root]
    /\ ai_available \in ai
    /\ now = 0
    /\ objs = <<>>
    /\ terminal_sessions = <<>>
    /\ uuids = 0
    /\ req = [t \in Threads |-> IdleReq]
    /\ sweep = Asleep
    /\ cli = [pc |-> "running", current_directory |-> Root, command_history |-> <<>>,
              out |-> <<>>, ran |-> 0, failed |-> 0]
    /\ system_stats_cache = NoCache
    /\ poller = [pc |-> "import", taken |-> 0, stats |-> NoStats]

\* An empty file system, and one that holds the directory x.
EmptyFs == [dirs |-> {Root}, files |-> {}]

HomeFs == [dirs |-> {Root, <<Name("x")>>}, files |-> {}]

Init == Boot(EmptyFs, BOOLEAN)

WithinDepth(f) == \A p \in f.dirs \cup f.files : Len(p) <= MaxDepth

\* What the AI model may answer to a request.
AiReplies == {<<>>, <<"true">>, <<"false">>}

\* -------------------------------------------------- request handling
\* The identifiers a client can send: none, one it made up, or one the
\* server issued earlier.
ClientIds == {0} \cup MadeUpIds \cup (1..uuids)

\* POST /api/terminal/execute and the execute_command event, up to the
\* call of get_or_create_session(session_id), for a request that carries a
\* command.
execute_receive(t, sid) ==
    /\ req[t].pc = "idle"
    /\ req' = [req EXCEPT ![t] = [IdleReq EXCEPT !.pc = "check", !.kind = "execute",
                                               !.session_id = sid, !.given = sid]]
    /\ UNCHANGED <<fs, proc, ai_available, now, objs, terminal_sessions, uuids, sweep, cli,
                 system_stats_cache, poller>>

\* POST /api/terminal/new: session_id = str(uuid.uuid4()), then
\* get_or_create_session(session_id).
create_terminal_session(t) ==
    /\ req[t].pc = "idle"
    /\ uuids < MaxUuids
    /\ uuids' = uuids + 1
    /\ req' = [req EXCEPT ![t] = [IdleReq EXCEPT !.pc = "check", !.kind = "new",
                                               !.session_id = uuids + 1,
                                               !.given = uuids + 1]]
    /\ UNCHANGED <<fs, proc, ai_available, now, objs, terminal_sessions, sweep, cli,
                 system_stats_cache, poller>>

\* "if not session_id: session_id = str(uuid.uuid4())": the identifier the
\* call goes on with, n being the number of uuid4 values generated so far.
\* The variant that also replaces an identifier the store does not hold is
\* or_new_uuid_mutant.
or_new_uuid_mutant(session_id, store, n) ==
    IF session_id = 0 \/ session_id \notin Keys(store) THEN n + 1 ELSE session_id

or_new_uuid(session_id, store, n) == IF session_id = 0 THEN n + 1 ELSE session_id

\* get_or_create_session, to the membership test: a missing identifier is
\* replaced by a new uuid4 value, then "session_id not in terminal_sessions".
goc_check(t) ==
    /\ req[t].pc = "check"
    /\ LET session_id == or_new_uuid(req[t].session_id, terminal_sessions, uuids)
       IN  /\ session_id > uuids => uuids < MaxUuids
           /\ uuids' = IF session_id > uuids THEN uuids + 1 ELSE uuids
           /\ req' = [req EXCEPT ![t].session_id = session_id,
                                 ![t].pc = IF session_id \notin Keys(terminal_sessions)
                                           THEN "create" ELSE "lookup"]
    /\ UNCHANGED <<fs, proc, ai_available, now, objs, terminal_sessions, sweep, cli,
                 system_stats_cache, poller>>

\* TerminalSession(session_id): TerminalEngine() starts in os.getcwd().
\* created_at is written here and never again, and only the listing of the
\* sessions reads it: it is left out of the state.
TerminalSession_init(session_id) ==
    [session_id |-> session_id,
     terminal |-> [current_directory |-> proc.path, command_history |-> <<>>],
     last_activity |-> now]

Failure(status, r) ==
    [r EXCEPT !.pc = "respond", !.obj = NoObj,
              !.result = [NoResult EXCEPT !.status = status]]

\* terminal_sessions[session_id] = TerminalSession(session_id); os.getcwd()
\* raises in a process whose working directory was removed, and the handler
\* answers 500.
goc_create(t) ==
    /\ req[t].pc = "create"
    /\ IF proc.alive
       THEN \E n \in 1..MaxObjs :
               /\ n \notin DOMAIN objs
               /\ \A m \in 1..(n - 1) : m \in DOMAIN objs
               /\ LET store == Put(terminal_sessions, req[t].session_id, n)
                      made == (n :> TerminalSession_init(req[t].session_id)) @@ objs
                  IN  /\ terminal_sessions' = store
                      /\ req' = [req EXCEPT ![t].pc = "lookup"]
                      /\ objs' = Collect(made, store, req')
       ELSE /\ req' = [req EXCEPT ![t] = Failure(500, @)]
            /\ UNCHANGED <<objs, terminal_sessions>>
    /\ UNCHANGED <<fs, proc, ai_available, now, uuids, sweep, cli,
                 system_stats_cache, poller>>

\* return terminal_sessions[session_id], and for /api/terminal/new the
\* answer; a KeyError makes the handler answer 500.
goc_lookup(t) ==
    /\ req[t].pc = "lookup"
    /\ IF req[t].session_id \in Keys(terminal_sessions)
       THEN LET o == Get(terminal_sessions, req[t].session_id)
            IN  req' = [req EXCEPT ![t] =
                          IF @.kind = "new"
                          THEN [@ EXCEPT !.pc = "respond", !.obj = o,
                                         !.result = [NoResult EXCEPT
                                            !.status = 200, !.success = TRUE,
                                            !.current_directory =
                                                objs[o].terminal.current_directory,
                                            !.session_id = req[t].session_id]]
                          ELSE [@ EXCEPT !.pc = "exec", !.obj = o]]
       ELSE req' = [req EXCEPT ![t] = Failure(500, @)]
    /\ UNCHANGED <<fs, proc, ai_available, now, objs, terminal_sessions, uuids, sweep, cli,
                 system_stats_cache, poller>>

\* The world a session's engine runs a command in.
World(terminal) ==
    [fs |-> fs, proc |-> proc, current_directory |-> terminal.current_directory,
     command_history |-> terminal.command_history, out |-> <<>>]

\* TerminalSession.execute_command(command): the result it returns and the
\* world the command leaves.
TerminalSession_execute_command(terminal, command, ai) ==
    LET r == execute_single_command(World(terminal), command, ai)
        output == IF r.raised THEN <<Line("Error executing command: {e}", Root)>>
                  ELSE IF r.w.out = <<>>
                       THEN <<Line("Command executed successfully", Root)>>
                  ELSE r.w.out
    IN  [w |-> r.w,
         success |-> IF r.raised THEN FALSE ELSE r.success,
         output |-> output,
         current_directory |-> r.w.current_directory]

\* terminal_session.execute_command(command) and the answer of the handler.
execute_run(t, command, reply) ==
    /\ req[t].pc = "exec"
    /\ LET o == req[t].obj
           r == TerminalSession_execute_command(
                    objs[o].terminal, command,
                    [available |-> ai_available, reply |-> reply])
       IN  /\ WithinDepth(r.w.fs)
           /\ fs' = r.w.fs
           /\ proc' = r.w.proc
           /\ objs' = [objs EXCEPT ![o].last_activity = now,
                                   ![o].terminal.current_directory = r.w.current_directory,
                                   ![o].terminal.command_history = r.w.command_history]
           /\ req' = [req EXCEPT ![t].pc = "respond",
                                 ![t].command = command,
                                 ![t].result = [status |-> 200,
                                                success |-> r.success,
                                                output |-> r.output,
                                                current_directory |-> r.current_directory,
                                                session_id |-> objs[o].session_id]]
    /\ UNCHANGED <<ai_available, now, terminal_sessions, uuids, sweep, cli,
                 system_stats_cache, poller>>

\* The answer leaves; the thread is free for the next request.
respond(t) ==
    /\ req[t].pc = "respond"
    /\ req' = [req EXCEPT ![t] = IdleReq]
    /\ objs' = Collect(objs, terminal_sessions, req')
    /\ UNCHANGED <<fs, proc, ai_available, now, terminal_sessions, uuids, sweep, cli,
                 system_stats_cache, poller>>

\* ------------------------------------------- the transport boundary
\* The bodies sent to POST /api/terminal/execute: with or without a command,
\* which may be blank, with or without a session identifier.
Bodies(commands, ids) ==
    {[keys |-> k,
      command |-> IF "command" \in k THEN c ELSE <<>>,
      session_id |-> IF "session_id" \in k THEN i ELSE 0] :
        k \in SUBSET {"command", "session_id"}, c \in commands, i \in ids}

\* The test of execute_command that lets a blank command through.
execute_validate_mutant(data) ==
    IF data.keys = {} \/ "command" \notin data.keys THEN 400 ELSE 0

\* The tests of execute_command ahead of get_or_create_session: the status
\* it answers at once, 0 when the request goes on.
execute_validate(data) ==
    IF data.keys = {} \/ "command" \notin data.keys THEN 400
    ELSE IF data.command = <<>> THEN 400
    ELSE 0

\* POST /api/terminal/execute with the body data, up to the call of
\* get_or_create_session(session_id) or to the answer 400.
execute_http(t, data) ==
    /\ req[t].pc = "idle"
    /\ req' = [req EXCEPT ![t] =
                 IF execute_validate(data) # 0
                 THEN [IdleReq EXCEPT !.pc = "respond", !.kind = "execute", !.data = data,
                                      !.result = [NoResult EXCEPT
                                                    !.status = execute_validate(data)]]
                 ELSE [IdleReq EXCEPT !.pc = "check", !.kind = "execute", !.data = data,
                                      !.session_id = data.session_id,
                                      !.given = data.session_id]]
    /\ UNCHANGED <<fs, proc, ai_available, now, objs, terminal_sessions, uuids, sweep, cli,
                 system_stats_cache, poller>>

\* GET /api/terminal/history/<session_id>, to the membership test: 404 for
\* an identifier the store does not hold.
history_receive(t, sid) ==
    /\ req[t].pc = "idle"
    /\ req' = [req EXCEPT ![t] =
                 IF sid \notin Keys(terminal_sessions)
                 THEN [IdleReq EXCEPT !.pc = "respond", !.kind = "history",
                                      !.session_id = sid, !.given = sid,
                                      !.result = [NoResult EXCEPT !.status = 404]]
                 ELSE [IdleReq EXCEPT !.pc = "history", !.kind = "history",
                                      !.session_id = sid, !.given = sid]]
    /\ UNCHANGED <<fs, proc, ai_available, now, objs, terminal_sessions, uuids, sweep, cli,
                 system_stats_cache, poller>>

\* terminal_sessions[session_id] and the answer with its history; a KeyError
\* makes the handler answer 500.
history_read(t) ==
    /\ req[t].pc = "history"
    /\ LET r == req[t]
       IN  req' = [req EXCEPT ![t] =
                     IF r.session_id \in Keys(terminal_sessions)
                     THEN [r EXCEPT !.pc = "respond",
                                    !.result = [NoResult EXCEPT
                                       !.status = 200, !.success = TRUE,
                                       !.output = objs[Get(terminal_sessions, r.session_id)]
                                                      .terminal.command_history,
                                       !.session_id = r.session_id]]
                     ELSE Failure(500, r)]
    /\ UNCHANGED <<fs, proc, ai_available, now, objs, terminal_sessions, uuids, sweep, cli,
                 system_stats_cache, poller>>

\* --------------------------------------------------------- the stats
\* The stats requests: GET /api/system/stats and the request_stats event.
StatsKinds == {"stats", "request_stats"}

\* The exception handler of update_system_stats, were it to drop the
\* snapshot that a failed sample can no longer refresh.
sample_failed_mutant(cache) == NoCache

\* "except Exception as e: print(...)": a failed sample leaves the cache.
sample_failed(cache) == cache

\* system_stats_cache['current'] = stats
sample_stored(cache, stats) == [keys |-> cache.keys \cup {"current"}, current |-> stats]

\* update_system_stats, to its loop: without psutil the thread returns.
poller_import(ok) ==
    /\ poller.pc = "import"
    /\ poller' = [poller EXCEPT !.pc = IF ok THEN "loop" ELSE "returned"]
    /\ UNCHANGED <<fs, proc, ai_available, now, objs, terminal_sessions, uuids, req, sweep, cli,
                   system_stats_cache>>

\* One turn of the loop of update_system_stats: the sample is taken and
\* stored, or an exception is printed; then time.sleep(2).
poller_update(ok) ==
    /\ poller.pc = "loop"
    /\ poller.taken < MaxSamples
    /\ poller' = [poller EXCEPT !.taken = @ + 1,
                                !.stats = IF ok THEN poller.taken + 1 ELSE @]
    /\ system_stats_cache' = IF ok THEN sample_stored(system_stats_cache, poller.taken + 1)
                             ELSE sample_failed(system_stats_cache)
    /\ UNCHANGED <<fs, proc, ai_available, now, objs, terminal_sessions, uuids, req, sweep, cli>>

\* get_system_stats and handle_stats_request, to the test
\* 'current' in system_stats_cache: 503 or stats_error when it is not.
stats_receive(t, kind) ==
    /\ req[t].pc = "idle"
    /\ req' = [req EXCEPT ![t] =
                 IF "current" \in system_stats_cache.keys
                 THEN [IdleReq EXCEPT !.pc = "stats", !.kind = kind]
                 ELSE [IdleReq EXCEPT !.pc = "respond", !.kind = kind,
                                      !.result = [NoResult EXCEPT !.status = 503]]]
    /\ UNCHANGED <<fs, proc, ai_available, now, objs, terminal_sessions, uuids, sweep, cli,
                   system_stats_cache, poller>>

\* system_stats_cache['current'] and the answer that carries it; a KeyError
\* makes get_system_stats answer 500.
stats_read(t) ==
    /\ req[t].pc = "stats"
    /\ req' = [req EXCEPT ![t] =
                 IF "current" \in system_stats_cache.keys
                 THEN [@ EXCEPT !.pc = "respond", !.stats = system_stats_cache.current,
                                !.result = [NoResult EXCEPT !.status = 200, !.success = TRUE]]
                 ELSE Failure(500, @)]
    /\ UNCHANGED <<fs, proc, ai_available, now, objs, terminal_sessions, uuids, sweep, cli,
                   system_stats_cache, poller>>

\* ------------------------------------------------------ cleanup thread
\* timedelta.seconds of (a - b): the seconds within the day, days apart.
timedelta_seconds(a, b) == (a - b) % SecondsPerDay

\* cleanup_old_sessions, to the start of its first loop.
cleanup_begin ==
    /\ sweep.pc = "sleep"
    /\ sweep' = [pc |-> "scan", current_time |-> now, used |-> Len(terminal_sessions),
                 pos |-> 0, sessions_to_remove |-> <<>>]
    /\ UNCHANGED <<fs, proc, ai_available, now, objs, terminal_sessions, uuids, req, cli,
                 system_stats_cache, poller>>

is_inactive(current_time, last_activity) ==
    timedelta_seconds(current_time, last_activity) > InactivitySeconds

\* One step of "for session_id, terminal_session in terminal_sessions.items()":
\* a dict whose size changed since the loop began raises RuntimeError, which
\* nothing in cleanup_thread_func catches.
cleanup_scan ==
    /\ sweep.pc = "scan"
    /\ sweep' =
         IF Len(terminal_sessions) # sweep.used THEN [Asleep EXCEPT !.pc = "dead"]
         ELSE IF sweep.pos < Len(terminal_sessions)
              THEN LET e == terminal_sessions[sweep.pos + 1]
                   IN  [sweep EXCEPT
                          !.pos = @ + 1,
                          !.sessions_to_remove =
                              IF is_inactive(sweep.current_time, objs[e.obj].last_activity)
                              THEN Append(@, e.key) ELSE @]
         ELSE [sweep EXCEPT !.pc = "delete"]
    /\ UNCHANGED <<fs, proc, ai_available, now, objs, terminal_sessions, uuids, req, cli,
                 system_stats_cache, poller>>

\* One step of "for session_id in sessions_to_remove: del ...", then
\* time.sleep(300).
cleanup_delete ==
    /\ sweep.pc = "delete"
    /\ IF sweep.sessions_to_remove = <<>>
       THEN /\ sweep' = Asleep
            /\ UNCHANGED <<objs, terminal_sessions>>
       ELSE /\ sweep' = [sweep EXCEPT !.sessions_to_remove = Tail(@)]
            /\ terminal_sessions' = Del(terminal_sessions, Head(sweep.sessions_to_remove))
            /\ objs' = Collect(objs, terminal_sessions', req)
    /\ UNCHANGED <<fs, proc, ai_available, now, uuids, req, cli,
                 system_stats_cache, poller>>

\* The wall clock moves on, half a day at a time.
TickSteps == {SecondsPerDay \div 2}

Tick(d) ==
    /\ now + d <= MaxTicks * (SecondsPerDay \div 2)
    /\ now' = now + d
    /\ UNCHANGED <<fs, proc, ai_available, objs, terminal_sessions, uuids, req, sweep, cli,
                 system_stats_cache, poller>>

\* ------------------------------------------------- the stand-alone engine
\* One turn of the loop of TerminalEngine.run(): a line is read and, unless
\* it is "exit", handed to execute_command; an exception other than
\* KeyboardInterrupt and EOFError ends the process.
cli_input(user_input, reply) ==
    /\ cli.pc = "running"
    /\ Len(cli.command_history) < MaxHistory
    /\ IF user_input = <<"exit">>
       THEN /\ cli' = [cli EXCEPT !.pc = "exited"]
            /\ UNCHANGED <<fs, proc>>
       ELSE LET w == [fs |-> fs, proc |-> proc,
                      current_directory |-> cli.current_directory,
                      command_history |-> cli.command_history, out |-> <<>>]
                r == TerminalEngine_execute_command(
                         w, user_input, [available |-> ai_available, reply |-> reply])
            IN  /\ WithinDepth(r.w.fs)
                /\ fs' = r.w.fs
                /\ proc' = r.w.proc
                /\ cli' = [pc |-> IF r.raised THEN "crashed" ELSE "running",
                           current_directory |-> r.w.current_directory,
                           command_history |-> r.w.command_history,
                           out |-> r.w.out, ran |-> r.ran, failed |-> r.failed]
    /\ UNCHANGED <<ai_available, now, objs, terminal_sessions, uuids, req, sweep,
                 system_stats_cache, poller>>

\* ------------------------------------------------------------- inputs
\* The commands sent to a server whose requests come one at a time.
ShellCommands ==
    { <<"pwd">>, <<"ls">>,
      <<"cd">>, <<"cd", "x">>, <<"cd", "y">>, <<"cd", "..">>, <<"cd", "/">>,
      <<"mkdir", "x">>, <<"mkdir", "-p", "x">>, <<"mkdir">>,
      <<"rm", "x">>, <<"rm", "-r", "x">>, <<"rm", "-f", "x">>, <<"rm", "-rf", "x">>,
      <<"rm", "-fr", "x">>, <<"rm", "x", "y">>, <<"rm", "-f", "y">>,
      <<"touch", "x">>, <<"touch", "y">>,
      <<"cat", "x">>, <<"cat", "y">>,
      <<"true">>, <<"false">>, <<"nosuch">>,
      <<"show", "me", "x">>, <<"true", "me", "x">>,
      <<"mkdir", "-p", "x", "&&", "cd", "x", "&&", "pwd">>,
      <<"cd", "x", "&&", "pwd">> }

\* The commands sent to a server whose store is under study.
StoreCommands == { <<"pwd">> }

\* The commands sent to a server whose requests run side by side.
RaceCommands == { <<"cd", "x">>, <<"cd", "..">> }

\* The commands two clients send to a server they share.
PairCommands ==
    { <<"pwd">>, <<"cd", "x">>, <<"cd", "..">>, <<"mkdir", "x">>, <<"rm", "-rf", "x">>,
      <<"mv", "x", "y">>, <<"true">> }

\* The lines typed to the stand-alone engine.
CliCommands ==
    { <<"exit">>,
      <<"pwd">>, <<"cd", "x">>, <<"cd", "..">>, <<"mkdir", "x">>, <<"rm", "-rf", "x">>,
      <<"touch", "y">>, <<"false">>,
      <<"mkdir", "-p", "x", "&&", "cd", "x", "&&", "pwd">>,
      <<"mkdir", "x", "&&", "cd", "x">>,
      <<"cd", "x", "&&", "touch", "y">>,
      <<"false", "&&", "mkdir", "x">>,
      <<"true", "&&", "mkdir", "x">>,
      <<"show", "me", "x">>,
      <<"pwd", "&&">>, <<"&&", "pwd">>, <<"&&">>, <<"pwd", "&&", "&&", "pwd">>,
      <<"false", "&&">> }

\* The commands sent to a server asked to remove and to copy several items.
BatchCommands ==
    { <<"mkdir", "x">>, <<"touch", "y">>,
      <<"rm", "x", "y">>, <<"rm", "-f", "x", "y">>, <<"rm", "-f", "y", "x">>,
      <<"rm", "-f", "z", "y">>, <<"rm", "-rf", "x", "y">>,
      <<"cp", "y", "z">>, <<"cp", "y", "x">>, <<"cp", "y", "y">>, <<"cp", "x", "z">>,
      <<"cp", "-r", "x", "z">>, <<"cp", "y", "z", "x">>, <<"cp", "-r">> }

\* What the AI model may answer to a request; only a text that reaches
\* translate_natural_language is sent to it.
RepliesTo(user_input) ==
    IF ai_available /\ user_input # <<>> /\ user_input[1] \notin builtin_commands
       /\ is_likely_natural_language(user_input)
    THEN AiReplies ELSE {<<>>}

\* ------------------------------------------------------ specifications
\* The server with its request threads side by side.
Next ==
    \/ \E t \in Threads : \E sid \in ClientIds : execute_receive(t, sid)
    \/ \E t \in Threads : create_terminal_session(t)
    \/ \E t \in Threads : goc_check(t)
    \/ \E t \in Threads : goc_create(t)
    \/ \E t \in Threads : goc_lookup(t)
    \/ \E t \in Threads : \E command \in RaceCommands : execute_run(t, command, <<>>)
    \/ \E t \in Threads : respond(t)

\* No text that reaches the translator is sent to these servers, and no
\* command that changes the file system: the directory x is there.
InitStore == Boot(HomeFs, {FALSE})

Spec == InitStore /\ [][Next]_vars

\* The server with one request in flight at a time, beside the cleanup
\* thread and the clock.
NextStore ==
    \/ \E sid \in ClientIds : execute_receive(1, sid)
    \/ create_terminal_session(1)
    \/ goc_check(1)
    \/ goc_create(1)
    \/ goc_lookup(1)
    \/ \E command \in StoreCommands : execute_run(1, command, <<>>)
    \/ respond(1)
    \/ cleanup_begin
    \/ cleanup_scan
    \/ cleanup_delete
    \/ \E d \in TickSteps : Tick(d)

SpecStore == InitStore /\ [][NextStore]_vars

\* One client that keeps to the identifier it made up, its requests one at
\* a time, and no cleanup thread.
NextShell ==
    \/ \E sid \in MadeUpIds : execute_receive(1, sid)
    \/ goc_check(1)
    \/ goc_create(1)
    \/ goc_lookup(1)
    \/ \E command \in ShellCommands : \E reply \in RepliesTo(command) :
          execute_run(1, command, reply)
    \/ respond(1)

SpecShell == Init /\ [][NextShell]_vars

\* Two clients, each with the identifier it made up, their requests one at
\* a time, and no cleanup thread.
PairIds == {-1, -2}

NextPair ==
    \/ \E sid \in PairIds : execute_receive(1, sid)
    \/ goc_check(1)
    \/ goc_create(1)
    \/ goc_lookup(1)
    \/ \E command \in PairCommands : execute_run(1, command, <<>>)
    \/ respond(1)

SpecPair == Boot(EmptyFs, {FALSE}) /\ [][NextPair]_vars

\* terminal_engine.main(): the engine alone, at a terminal.
NextCli ==
    \E user_input \in CliCommands : \E reply \in RepliesTo(user_input) :
        cli_input(user_input, reply)

SpecCli == Init /\ [][NextCli]_vars

\* The HTTP server with one request in flight at a time, whatever its body,
\* beside the cleanup thread and the clock.
NextApi ==
    \/ \E data \in Bodies({<<>>} \cup StoreCommands, MadeUpIds) : execute_http(1, data)
    \/ \E sid \in MadeUpIds \cup {1} : history_receive(1, sid)
    \/ history_read(1)
    \/ goc_check(1)
    \/ goc_create(1)
    \/ goc_lookup(1)
    \/ \E command \in StoreCommands : execute_run(1, command, <<>>)
    \/ respond(1)
    \/ cleanup_begin
    \/ cleanup_scan
    \/ cleanup_delete
    \/ \E d \in TickSteps : Tick(d)

SpecApi == InitStore /\ [][NextApi]_vars

\* The stats thread beside the requests for the stats.
NextStats ==
    \/ \E ok \in BOOLEAN : poller_import(ok)
    \/ \E ok \in BOOLEAN : poller_update(ok)
    \/ \E t \in Threads : \E kind \in StatsKinds : stats_receive(t, kind)
    \/ \E t \in Threads : stats_read(t)
    \/ \E t \in Threads : respond(t)

SpecStats == InitStore /\ [][NextStats]_vars

\* One client that removes and copies several items at a time.
NextBatch ==
    \/ \E sid \in MadeUpIds : execute_receive(1, sid)
    \/ goc_check(1)
    \/ goc_create(1)
    \/ goc_lookup(1)
    \/ \E command \in BatchCommands : execute_run(1, command, <<>>)
    \/ respond(1)

SpecBatch == Boot(EmptyFs, {FALSE}) /\ [][NextBatch]_vars

\* Two clients that move about a file system that stays as it is, their
\* requests one at a time, beside the clock.
NextFrame ==
    \/ \E sid \in PairIds : execute_receive(1, sid)
    \/ goc_check(1)
    \/ goc_create(1)
    \/ goc_lookup(1)
    \/ \E command \in RaceCommands \cup StoreCommands : execute_run(1, command, <<>>)
    \/ respond(1)
    \/ \E d \in TickSteps : Tick(d)

SpecFrame == InitStore /\ [][NextFrame]_vars

\* ================================================================ claims
\* The step in which thread t runs its command and builds its answer.
ExecStep(t) == req[t].pc = "exec" /\ req'[t].pc = "respond"

Answered(t) ==
    req[t].pc = "respond" /\ req[t].kind = "execute" /\ req[t].result.status = 200

CwdOf(o) == objs[o].terminal.current_directory

\* C1: the working directory of every session in the store is a directory
\* that exists, whatever commands any session has run.
C1_WorkingDirectoryExists ==
    \A i \in DOMAIN terminal_sessions : isdir(fs, CwdOf(terminal_sessions[i].obj))

\* C2: a cd whose target is not a directory that exists leaves the working
\* directory of the session as it was and puts an error line in the output;
\* the working directory changes only to a target that was entered.
C2_CdFailureKeepsDirectory ==
    [][\A t \in Threads :
          (ExecStep(t) /\ req'[t].command[1] = "cd") =>
              LET before == CwdOf(req[t].obj)
                  after == objs'[req[t].obj].terminal.current_directory
                  target == realpath(cd_target(before, Tail(req'[t].command)))
              IN  /\ ~isdir(fs, target) =>
                        /\ after = before
                        /\ HasError(req'[t].result.output)
                        /\ req'[t].result.current_directory = before
                  /\ after # before =>
                        /\ after = target
                        /\ isdir(fs, after)
                        /\ ~HasError(req'[t].result.output)]_vars

\* A cd that failed in a session whose working directory is not the root.
C2_Witness ==
    \E t \in Threads :
        /\ Answered(t)
        /\ req[t].command = <<"cd", "y">>
        /\ HasError(req[t].result.output)
        /\ CwdOf(req[t].obj) # Root
        /\ req[t].result.current_directory = CwdOf(req[t].obj)

\* C3: every command run through the session wrapper adds its atomic
\* commands, in order and as submitted, to the history of the session.
C3_HistoryRecordsEveryCommand ==
    [][\A t \in Threads :
          ExecStep(t) =>
              objs'[req[t].obj].terminal.command_history =
                  objs[req[t].obj].terminal.command_history
                      \o split_chain(req'[t].command)]_vars

\* C4: in a chain, no piece runs after the first piece that failed.
C4_ChainStopsAtFirstFailure == cli.failed # 0 => cli.ran = cli.failed

\* C5: "mkdir -p x && cd x && pwd" sent through the session wrapper, when it
\* succeeds, creates the one directory x, moves the session into it and
\* prints that path.
ChainMkdirCdPwd == <<"mkdir", "-p", "x", "&&", "cd", "x", "&&", "pwd">>

C5_ChainThroughTransport ==
    [][\A t \in Threads :
          (ExecStep(t) /\ req'[t].command = ChainMkdirCdPwd /\ req'[t].result.success) =>
              LET before == CwdOf(req[t].obj)
                  made == Append(before, Name("x"))
              IN  /\ fs'.dirs \subseteq fs.dirs \cup {made}
                  /\ made \in fs'.dirs
                  /\ objs'[req[t].obj].terminal.current_directory = made
                  /\ Contains(req'[t].result.output, Line("{cwd}", made))]_vars

\* C6: an rm whose arguments hold neither -f nor -rf deletes nothing: every
\* path that was there before the command is there after it.
C6_RmWithoutForceKeepsAll ==
    [][\A t \in Threads :
          (/\ ExecStep(t)
           /\ req'[t].command[1] = "rm"
           /\ ~Contains(req'[t].command, "-f")
           /\ ~Contains(req'[t].command, "-rf")) =>
              /\ fs.dirs \subseteq fs'.dirs
              /\ fs.files \subseteq fs'.files]_vars

\* An rm -r without the force flag that was refused on a directory that is
\* not empty, which is still there with what it holds.
C6_Witness ==
    \E t \in Threads :
        /\ Answered(t)
        /\ req[t].command = <<"rm", "-r", "x">>
        /\ Contains(req[t].result.output,
                    Line("Error: Use -f flag to delete '{}' in web mode for safety", Said("x")))
        /\ Cardinality(Under(fs, Append(CwdOf(req[t].obj), Name("x")))) > 1

\* C7: when a sweep has finished, no session that had been inactive for
\* more than the threshold when the sweep began is left in the store.
SweepFinishing == sweep.pc = "delete" /\ sweep.sessions_to_remove = <<>>

C7_SweepRemovesEveryInactive ==
    SweepFinishing =>
        \A i \in DOMAIN terminal_sessions :
            sweep.current_time - objs[terminal_sessions[i].obj].last_activity
                <= InactivitySeconds

\* C8: the sweep never removes a session that ran a command within the
\* threshold, also when the command ran while the sweep was under way.
C8_SweepKeepsActive ==
    [][\A k \in Keys(terminal_sessions) \ Keys(terminal_sessions') :
          now - objs[Get(terminal_sessions, k)].last_activity > InactivitySeconds]_vars

\* C9 as claimed: a session is never created under the identifier the
\* caller gave.
C9_CreatesOnlyUnderNewIds ==
    [][\A t \in Threads :
          (req[t].pc = "create" /\ req'[t].pc = "lookup") =>
              req[t].session_id # req[t].given]_vars

\* C9 as amended: without an identifier the session is created under a new
\* uuid4 value; with an identifier that is not in the store it is created
\* under that very identifier; with an identifier that is in the store
\* nothing is created, and what the call returns is the session the store
\* holds under the identifier at the return statement.
C9_ResolveOrCreate ==
    [][\A t \in Threads :
          /\ (req[t].pc = "check" /\ req'[t].pc # "check") =>
                /\ terminal_sessions' = terminal_sessions
                /\ IF req[t].given = 0
                   THEN /\ req'[t].session_id \notin ClientIds
                        /\ req'[t].session_id \notin Keys(terminal_sessions)
                        /\ req'[t].pc = "create"
                   ELSE /\ req'[t].session_id = req[t].given
                        /\ req'[t].pc = IF req[t].given \in Keys(terminal_sessions)
                                        THEN "lookup" ELSE "create"
          /\ (req[t].pc = "create" /\ req'[t].pc = "lookup") =>
                /\ Keys(terminal_sessions') =
                       Keys(terminal_sessions) \cup {req[t].session_id}
                /\ objs'[Get(terminal_sessions', req[t].session_id)].session_id =
                       req[t].session_id
                /\ \A k \in Keys(terminal_sessions) \ {req[t].session_id} :
                       Get(terminal_sessions', k) = Get(terminal_sessions, k)
          /\ (req[t].pc = "lookup" /\ req'[t].obj # NoObj) =>
                /\ terminal_sessions' = terminal_sessions
                /\ req'[t].obj = Get(terminal_sessions, req[t].session_id)]_vars

\* A request that gave an identifier the store did not know holds the
\* session created under it, beside a session created under a uuid4 value.
C9_Witness ==
    \E t \in Threads :
        /\ req[t].pc = "exec"
        /\ req[t].given = -1
        /\ -1 \in Keys(terminal_sessions)
        /\ req[t].obj = Get(terminal_sessions, -1)
        /\ objs[req[t].obj].session_id = -1
        /\ 1 \in Keys(terminal_sessions)

\* C10: a cd, mkdir or cat of one argument whose operation failed, as its
\* error line shows, is answered with success false.
C10_FailureIsReported ==
    \A t \in Threads :
        (/\ Answered(t)
         /\ Len(req[t].command) = 2
         /\ req[t].command[1] \in {"cd", "mkdir", "cat"}
         /\ HasError(req[t].result.output)) => ~req[t].result.success

\* C11: mkdir -p x that reports no error leaves x a directory, and run where
\* x is a directory already it succeeds again and leaves the file system as
\* it was; mkdir x where x is there already prints the already-exists line
\* and leaves the file system as it was.
C11_MkdirParentsIdempotent ==
    [][\A t \in Threads :
          ExecStep(t) =>
              LET path == Append(CwdOf(req[t].obj), Name("x"))
                  made == Line("Directory '{}' created successfully", Said("x"))
                  there == Line("Error: Directory '{}' already exists", Said("x"))
              IN  /\ req'[t].command = <<"mkdir", "-p", "x">> =>
                        /\ ~HasError(req'[t].result.output) => isdir(fs', path)
                        /\ isdir(fs, path) =>
                              /\ fs' = fs
                              /\ req'[t].result.success
                              /\ req'[t].result.output = <<made>>
                  /\ (req'[t].command = <<"mkdir", "x">> /\ exists(fs, path)) =>
                        /\ fs' = fs
                        /\ req'[t].result.output = <<there>>]_vars

\* mkdir -p x answered with success in the root, where x was a directory
\* already: it holds a file, and still does.
C11_Witness ==
    \E t \in Threads :
        /\ Answered(t)
        /\ req[t].command = <<"mkdir", "-p", "x">>
        /\ req[t].result.success
        /\ ~HasError(req[t].result.output)
        /\ CwdOf(req[t].obj) = Root
        /\ <<Name("x"), Name("y")>> \in fs.files

\* C12: an execute request whose body holds no command, or a blank one, is
\* answered 400, and a history request for an identifier the store does not
\* hold is answered 404; from its arrival to its answer the store and the
\* session objects are as they were.
Rejected(r) ==
    \/ r.kind = "execute" /\ ("command" \notin r.data.keys \/ r.data.command = <<>>)
    \/ r.kind = "history" /\ r.pc = "respond" /\ r.result.status = 404

C12_RejectionLeavesStore ==
    [][\A t \in Threads :
          /\ (req[t].pc = "idle" /\ req'[t].kind = "execute"
                 /\ ("command" \notin req'[t].data.keys \/ req'[t].data.command = <<>>)) =>
                /\ req'[t].pc = "respond"
                /\ req'[t].result.status = 400
          /\ (req[t].pc = "idle" /\ req'[t].kind = "history"
                 /\ req'[t].session_id \notin Keys(terminal_sessions)) =>
                /\ req'[t].pc = "respond"
                /\ req'[t].result.status = 404
          /\ (Rejected(req'[t]) /\ req[t].pc = "idle") \/ (Rejected(req[t]) /\ req'[t].pc = "idle") =>
                /\ terminal_sessions' = terminal_sessions
                /\ objs' = objs
                /\ uuids' = uuids]_vars

\* A request with a blank command for a session the store holds, answered
\* 400 beside that session.
C12_Witness ==
    \E t \in Threads :
        /\ req[t].pc = "respond"
        /\ req[t].kind = "execute"
        /\ req[t].data.keys = {"command", "session_id"}
        /\ req[t].data.command = <<>>
        /\ req[t].result.status = 400
        /\ req[t].data.session_id \in Keys(terminal_sessions)

\* C13: a stats request is refused (503, stats_error) exactly when no
\* snapshot was stored before it arrived; a request that is not refused is
\* answered with the snapshot in the cache, which is the last one a sample
\* made; and once a snapshot is stored the cache never loses it, failed
\* samples included.
C13_StatsOnceAlways ==
    [][/\ \A t \in Threads :
            /\ (req[t].pc = "idle" /\ req'[t].kind \in StatsKinds) =>
                  (req'[t].pc = "respond" /\ req'[t].result.status = 503)
                      <=> (poller.stats = NoStats)
            /\ (req[t].pc = "stats" /\ req'[t].pc = "respond") =>
                  /\ req'[t].result.status = 200
                  /\ req'[t].stats = poller.stats
                  /\ req'[t].stats # NoStats
       /\ poller.stats # NoStats =>
            /\ "current" \in system_stats_cache'.keys
            /\ system_stats_cache'.current = poller'.stats]_vars

\* A request answered with the second snapshot after the third sample
\* failed.
C13_Witness ==
    \E t \in Threads :
        /\ req[t].pc = "respond"
        /\ req[t].kind = "stats"
        /\ req[t].result.status = 200
        /\ req[t].stats = 2
        /\ poller.taken = 3
        /\ poller.stats = 2

\* C14: the cleanup thread never ends: no error raised while it scans the
\* session map, whatever the request threads do meanwhile, stops its loop.
C14_SweepNeverDies == sweep.pc # "dead"

\* C15 as claimed: a command that is no built-in and reads as natural language, and
\* that was not translated, is answered with the translation failure and
\* success false, and nothing else was run for it.
Translated(out) ==
    \E i \in DOMAIN out : out[i] = Line("AI translated: '{}' -> '{}'", Root)

Removable(f, p, recursive) ==
    exists(f, p) /\ (isdir(f, p) /\ ~recursive => Under(f, p) = {p})

\* The step of thread t, if a forced rm of several items, removes every
\* item that could be removed when it began.
RmEveryRemovable(t) ==
    LET cwd == CwdOf(req[t].obj)
        args == Tail(req'[t].command)
        names == drop_flags(args)
        recursive == Contains(args, "-r") \/ Contains(args, "-rf")
    IN  (/\ req'[t].command[1] = "rm"
         /\ Contains(args, "-f") \/ Contains(args, "-rf")
         /\ Len(names) > 1) =>
            \A i \in DOMAIN names :
                Removable(fs, join(cwd, names[i]), recursive) =>
                    ~exists(fs', join(cwd, names[i]))

C17_OtherSessionsUntouched ==
    [][\A t \in Threads :
          ExecStep(t) =>
              /\ terminal_sessions' = terminal_sessions
              /\ \A i \in DOMAIN terminal_sessions :
                    terminal_sessions[i].key # req[t].session_id =>
                        objs'[terminal_sessions[i].obj] = objs[terminal_sessions[i].obj]]_vars

\* A cd answered for one session, later than the other session was made,
\* which is still in the root with its first time stamp.
C17_Witness ==
    \E t \in Threads :
        /\ Answered(t)
        /\ req[t].session_id = -2
        /\ req[t].command = <<"cd", "x">>
        /\ Keys(terminal_sessions) = PairIds
        /\ CwdOf(Get(terminal_sessions, -2)) = <<Name("x")>>
        /\ objs[Get(terminal_sessions, -2)].last_activity > 0
        /\ CwdOf(Get(terminal_sessions, -1)) = Root
        /\ objs[Get(terminal_sessions, -1)].last_activity = 0

\* C18: the working directory a new session starts in does not depend on
\* the cd commands other sessions ran before: it is the one a session
\* created before any command starts in, the directory the server was
\* started in.
C18_InitialDirectoryFixed ==
    [][\A t \in Threads :
          (req[t].pc = "create" /\ req'[t].pc = "lookup") =>
              objs'[Get(terminal_sessions', req[t].session_id)].terminal.current_directory
                  = Root]_vars

\* C19: every command runs on the session record that the store holds
\* under the identifier of its request, also when two requests race to
\* create the session of one identifier.
C19_CommandsUseStoredRecord ==
    [][\A t \in Threads :
          ExecStep(t) =>
              /\ req[t].session_id \in Keys(terminal_sessions)
              /\ req[t].obj = Get(terminal_sessions, req[t].session_id)]_vars

\* C20: TerminalEngine.execute_command raises for no line, wherever the
\* line has its && separators: no exception leaves the dispatcher and ends
\* the loop that reads the lines.
C20_ExecuteCommandNeverRaises == cli.pc # "crashed"

====
